---- MODULE Spec2Model ----
(***************************************************************************)
(* Gesture classification and stability engine of the sign-language        *)
(* translator: RealTimeGestureDetector (lib/real-time-gesture-detector.ts). *)
(* The tracker delivers one result per frame; processHandResults classifies *)
(* every hand whose handedness score reaches confidenceThreshold and feeds  *)
(* the symbol to updateGestureHistory, which debounces it through a history *)
(* of at most five symbols and hands stable changes to onGestureDetected.   *)
(***************************************************************************)
EXTENDS Integers, Sequences, FiniteSets, TLC

(***************************************************************************)
(* Bounds of the model.                                                     *)
(***************************************************************************)
\* accepted classifications followed per session between two resets
MaxPushed == 6
\* last reading of the wall clock that is followed
MaxTime == 4
\* Camera objects created over the life of the detector
MaxCameras == 2
\* the largest coordinate of a tip that is followed, in hundredths
MaxCoordinate == 9
\* frames without a hand that are counted in a row
MaxEmptyRun == 4
\* ModelDetector: last value of frameCount that is followed
MaxFrameCount == 3
\* ModelDetector: callbacks of one kind that are outstanding at a time
MaxPending == 2
\* ModelDetector: captures of one chain of retries that are counted
MaxAttempts == 5

(***************************************************************************)
(* Program constants.  Scores and confidence thresholds are in tenths       *)
(* (0.7 is 7); times are in units of 500 ms (1000 ms is 2).                 *)
(***************************************************************************)
HistoryCapacity == 5
DefaultStabilityThreshold == 3
DefaultConfidenceThreshold == 7
DefaultGestureCooldown == 2
MaxNumHands == 2
\* Date.now() when the detector is constructed: later than any cooldown,
\* while lastGestureTime starts at 0
Epoch == 3

\* positions of the three sliders that are followed: stability 1 to 10,
\* confidence 0.1 to 1.0, cooldown 100 ms to 3000 ms
StabilityChoices == {1, 3, 6}
ConfidenceChoices == {5, 7}
CooldownChoices == {1, 2}
\* handedness scores the tracker reports
Scores == {6, 7}

\* isThumbIndexTouching and isThumbIndexCircle: the distances the tips are
\* compared with, in hundredths
TouchingDistance == 5
CircleInner == 3
CircleOuter == 8

\* MediaPipeGestureDetector: the score a hand must exceed, the two heights
\* handHeight is compared with, in hundredths, and the consistency test
HighConfidence == 6
RaisedHeight == 20
FistHeight == 15
RecentGestures == 5
ConsistentCount == 3
\* handHeight of the hands that are followed, in hundredths
HandHeights == {10, 15, 20, 25}

\* ModelDetector: the defaults of its configuration, the positions of the
\* two sliders that are followed (both go from 1 to 10), the confidences
\* the server answers with, and the readyState of a video that has data
ModelConfidenceThreshold == 7
DefaultFrameSkip == 5
DefaultMaxRetries == 3
FrameSkipChoices == {1, 2}
MaxRetriesChoices == {1, 2}
ModelConfidences == {6, 7}
HaveEnoughData == 4
ReadyStates == {2, 4}

(***************************************************************************)
(* State of one RealTimeGestureDetector and of its surroundings, and of one  *)
(* MediaPipeGestureDetector.                                                *)
(***************************************************************************)
VARIABLES
  gestureHistory,       \* the history buffer
  lastStableGesture,    \* symbol of the last delivered prediction, or idle
  lastGestureTime,      \* clock reading at the last delivery, 0 before it
  stabilityThreshold,
  confidenceThreshold,
  gestureCooldown,
  isDetecting,
  camera,               \* the Camera this.camera refers to, 0 for null
  cameras,              \* every Camera created so far and what it is doing
  inFlight,             \* the cameras whose hands.send has not returned yet
  status,               \* the object the last getStatus call returned
  classified,           \* a hand given to classifyGesture, and its symbol;
                        \* or two tips given to the tests on them
  argument,             \* the argument of updateConfig, when on record
  now,                  \* the wall clock, what Date.now() returns
  op,                   \* the operation performed last
  handled,              \* one record per hand of the frame handled last
  delivered,            \* the predictions handed to onGestureDetected by it
  pushed,               \* every symbol pushed since the last reset, in order
  lastDelivered,        \* symbol delivered last in this session since the
                        \* last reset, or none
  mpLastGesture,        \* MediaPipeGestureDetector.lastGesture
  mpGestureHistory,     \* MediaPipeGestureDetector.gestureHistory
  modelIsDetecting,     \* ModelDetector.isDetecting
  frameCount,           \* ModelDetector.frameCount
  retryCount,           \* ModelDetector.retryCount
  modelConfig,          \* ModelDetector.config
  healthChecks,         \* startDetection calls waiting for the health check
  animationFrames,      \* processFrame callbacks requested and not yet run
  requests,             \* prediction requests that are not answered yet
  retryTimers,          \* retry timers that are set and have not fired yet
  modelStep,            \* what the last step of the ModelDetector did
  attempts,             \* captures sent by the current chain of retries
  stopped               \* stopDetection was called and detection is off

Gesture ==
  {"idle", "hello", "thanks", "help", "wait", "repeat", "yes", "no",
   "a", "b", "c", "d", "e", "f", "g", "h", "i", "j", "k", "l", "m", "n",
   "o", "p", "q", "r", "s", "t", "u", "v", "w", "x", "y", "z",
   "0", "1", "2", "3", "4", "5", "6", "7", "8", "9"}

gestureToText ==
  [g \in Gesture |->
     CASE g = "idle" -> ""
       [] g = "hello" -> "Hello"
       [] g = "thanks" -> "Thank you"
       [] g = "help" -> "Help"
       [] g = "wait" -> "Wait"
       [] g = "repeat" -> "Repeat"
       [] g = "yes" -> "Yes"
       [] g = "no" -> "No"
       [] g = "a" -> "A" [] g = "b" -> "B" [] g = "c" -> "C" [] g = "d" -> "D"
       [] g = "e" -> "E" [] g = "f" -> "F" [] g = "g" -> "G" [] g = "h" -> "H"
       [] g = "i" -> "I" [] g = "j" -> "J" [] g = "k" -> "K" [] g = "l" -> "L"
       [] g = "m" -> "M" [] g = "n" -> "N" [] g = "o" -> "O" [] g = "p" -> "P"
       [] g = "q" -> "Q" [] g = "r" -> "R" [] g = "s" -> "S" [] g = "t" -> "T"
       [] g = "u" -> "U" [] g = "v" -> "V" [] g = "w" -> "W" [] g = "x" -> "X"
       [] g = "y" -> "Y" [] g = "z" -> "Z"
       [] OTHER -> g]

(***************************************************************************)
(* A hand as the classifier sees it: the five finger-extension tests and    *)
(* the auxiliary geometric tests evaluated on its 21 landmarks.             *)
(***************************************************************************)
HandShape ==
  [thumbExtended : BOOLEAN, indexExtended : BOOLEAN, middleExtended : BOOLEAN,
   ringExtended : BOOLEAN, pinkyExtended : BOOLEAN,
   isCurvedGesture : BOOLEAN, isThumbIndexTouching : BOOLEAN,
   isThumbBetweenFingers : BOOLEAN, isThumbIndexCircle : BOOLEAN,
   isIndexMiddleCrossed : BOOLEAN, isWaveGesture : BOOLEAN,
   isThumbsDown : BOOLEAN]

Fingers(t, i, m, r, p) ==
  [thumbExtended |-> t, indexExtended |-> i, middleExtended |-> m,
   ringExtended |-> r, pinkyExtended |-> p,
   isCurvedGesture |-> FALSE, isThumbIndexTouching |-> FALSE,
   isThumbBetweenFingers |-> FALSE, isThumbIndexCircle |-> FALSE,
   isIndexMiddleCrossed |-> FALSE, isWaveGesture |-> FALSE,
   isThumbsDown |-> FALSE]

\* fist with the thumb extended
FistThumb == Fingers(TRUE, FALSE, FALSE, FALSE, FALSE)
\* thumb, index and middle extended: no rule of either table matches
ThreeSpread == Fingers(TRUE, TRUE, TRUE, FALSE, FALSE)

\* the hand shapes shown to the camera
Shapes == {FistThumb, ThreeSpread}

isThumbsUp(h) == h.thumbExtended /\ ~h.indexExtended

isStopGesture(h) ==
  h.indexExtended /\ h.middleExtended /\ h.ringExtended /\ h.pinkyExtended

isPointingGesture(h) == h.indexExtended /\ ~h.middleExtended

\* symbol of the last rule of an ordered table whose predicate is true
LastMatch(rules) ==
  IF \E k \in 1..Len(rules) : rules[k].when
  THEN LET last == CHOOSE k \in 1..Len(rules) :
                     /\ rules[k].when
                     /\ \A j \in (k + 1)..Len(rules) : ~rules[j].when
       IN rules[last].then
  ELSE "idle"

\* symbol of the first rule of an ordered table whose predicate is true
FirstMatch(rules) ==
  IF \E k \in 1..Len(rules) : rules[k].when
  THEN LET first == CHOOSE k \in 1..Len(rules) :
                      /\ rules[k].when
                      /\ \A j \in 1..(k - 1) : ~rules[j].when
       IN rules[first].then
  ELSE "idle"

Rule(when, then) == [when |-> when, then |-> then]

\* the letter and digit table, in source order
LetterRules(h) ==
  LET t == h.thumbExtended
      i == h.indexExtended
      m == h.middleExtended
      r == h.ringExtended
      p == h.pinkyExtended
  IN << Rule(i /\ ~m /\ ~r /\ ~p /\ ~t, "1"),
        Rule(i /\ m /\ ~r /\ ~p /\ ~t, "2"),
        Rule(i /\ m /\ r /\ ~p /\ ~t, "3"),
        Rule(i /\ m /\ r /\ p /\ ~t, "4"),
        Rule(i /\ m /\ r /\ p /\ t, "5"),
        Rule(i /\ m /\ r /\ p /\ ~t, "6"),
        Rule(i /\ m /\ r /\ p /\ t, "7"),
        Rule(i /\ m /\ r /\ p /\ t, "8"),
        Rule(i /\ m /\ r /\ p /\ t, "9"),
        Rule(i /\ m /\ r /\ p /\ t, "0"),
        Rule(~i /\ ~m /\ ~r /\ ~p /\ t, "a"),
        Rule(i /\ m /\ r /\ p /\ ~t, "b"),
        Rule(h.isCurvedGesture, "c"),
        Rule(i /\ m /\ ~r /\ ~p /\ ~t, "d"),
        Rule(~i /\ ~m /\ ~r /\ ~p /\ ~t, "e"),
        Rule(h.isThumbIndexTouching, "f"),
        Rule(i /\ ~m /\ ~r /\ ~p /\ ~t, "g"),
        Rule(i /\ m /\ ~r /\ ~p /\ ~t, "h"),
        Rule(~i /\ ~m /\ ~r /\ p /\ ~t, "i"),
        Rule(~i /\ ~m /\ ~r /\ p /\ ~t, "j"),
        Rule(i /\ m /\ ~r /\ ~p /\ ~t, "k"),
        Rule(i /\ ~m /\ ~r /\ ~p /\ t, "l"),
        Rule(h.isThumbBetweenFingers, "m"),
        Rule(h.isThumbBetweenFingers, "n"),
        Rule(h.isThumbIndexCircle, "o"),
        Rule(i /\ ~m /\ ~r /\ ~p /\ ~t, "p"),
        Rule(~i /\ ~m /\ ~r /\ p /\ t, "q"),
        Rule(h.isIndexMiddleCrossed, "r"),
        Rule(~i /\ ~m /\ ~r /\ ~p /\ ~t, "s"),
        Rule(h.isThumbBetweenFingers, "t"),
        Rule(i /\ m /\ ~r /\ ~p /\ ~t, "u"),
        Rule(i /\ m /\ ~r /\ ~p /\ ~t, "v"),
        Rule(i /\ m /\ r /\ ~p /\ ~t, "w"),
        Rule(~i /\ ~m /\ ~r /\ ~p /\ ~t, "x"),
        Rule(~i /\ ~m /\ ~r /\ p /\ t, "y"),
        Rule(h.isIndexMiddleCrossed, "z") >>

detectASLLetter(h) == FirstMatch(LetterRules(h))

\* the macro-gesture table, in source order
CommonRules(h) ==
  << Rule(h.isWaveGesture, "hello"),
     Rule(isThumbsUp(h), "thanks"),
     Rule(h.isThumbsDown, "no"),
     Rule(isStopGesture(h), "wait"),
     Rule(isPointingGesture(h), "help") >>

detectCommonGestures(h) == FirstMatch(CommonRules(h))

\* a classifier that keeps answering the symbol delivered last
classifyGestureAfterStable(h) ==
  IF lastStableGesture # "idle"
  THEN lastStableGesture
  ELSE LET aslLetter == detectASLLetter(h)
       IN IF aslLetter # "idle" THEN aslLetter ELSE detectCommonGestures(h)

classifyGesture(h) ==
  LET aslLetter == detectASLLetter(h)
  IN IF aslLetter # "idle" THEN aslLetter ELSE detectCommonGestures(h)

\* classifyGesture on the shapes shown to the camera, evaluated once
Classified == [h \in Shapes |-> classifyGesture(h)]

engine == <<gestureHistory, lastStableGesture, lastGestureTime>>
config == <<stabilityThreshold, confidenceThreshold, gestureCooldown>>
session == <<isDetecting, camera, cameras>>
mediapipe == <<mpLastGesture, mpGestureHistory>>
model == <<modelIsDetecting, frameCount, retryCount, modelConfig,
           healthChecks, animationFrames, requests, retryTimers, modelStep,
           attempts, stopped>>
vars == <<gestureHistory, lastStableGesture, lastGestureTime,
          stabilityThreshold, confidenceThreshold, gestureCooldown,
          isDetecting, camera, cameras, inFlight, status, classified,
          argument, now, op, handled, delivered, pushed, lastDelivered,
          mpLastGesture, mpGestureHistory, modelIsDetecting, frameCount,
          retryCount, modelConfig, healthChecks, animationFrames, requests,
          retryTimers, modelStep, attempts, stopped>>

\* Array.prototype.slice(-n): the last n elements, the whole array when
\* n is 0 or exceeds the length
SliceLast(s, n) ==
  IF n = 0 \/ n >= Len(s) THEN s ELSE SubSeq(s, Len(s) - n + 1, Len(s))

\* a stability test that forgets the length test
isGestureStableAnyLength(history, gesture, threshold) ==
  LET recentGestures == SliceLast(history, threshold)
  IN \A k \in 1..Len(recentGestures) : recentGestures[k] = gesture

\* a stability test that keeps the threshold the detector was built with
isGestureStableDefault(history, gesture, threshold) ==
  IF Len(history) < DefaultStabilityThreshold
  THEN FALSE
  ELSE LET recentGestures == SliceLast(history, DefaultStabilityThreshold)
       IN \A k \in 1..Len(recentGestures) : recentGestures[k] = gesture

\* a stability test that looks at the newest entry only
isGestureStableNewestOnly(history, gesture, threshold) ==
  history # <<>> /\ history[Len(history)] = gesture

isGestureStable(history, gesture, threshold) ==
  IF Len(history) < threshold
  THEN FALSE
  ELSE LET recentGestures == SliceLast(history, threshold)
       IN \A k \in 1..Len(recentGestures) : recentGestures[k] = gesture

\* a confidence computed over the capacity instead of the entries present
calculateConfidenceOverCapacity(history, gesture) ==
  [num |-> Cardinality({k \in 1..Len(history) : history[k] = gesture}),
   den |-> HistoryCapacity]

\* a confidence is the fraction num / den
calculateConfidence(history, gesture) ==
  IF Len(history) = 0
  THEN [num |-> 0, den |-> 1]
  ELSE LET recentGestures == SliceLast(history, HistoryCapacity)
           sameGestures ==
             Cardinality({k \in 1..Len(recentGestures) :
                            recentGestures[k] = gesture})
       IN [num |-> sameGestures, den |-> Len(recentGestures)]

\* a push that drops the newest entry instead of the oldest when full
PushHistoryDropNewest(history, gesture) ==
  IF Len(history) >= HistoryCapacity THEN history ELSE Append(history, gesture)

\* gestureHistory.push(gesture) followed by the shift of the oldest entry
PushHistory(history, gesture) ==
  LET longer == Append(history, gesture)
  IN IF Len(longer) > HistoryCapacity THEN Tail(longer) ELSE longer

\* a cooldown test that also holds back a stable symbol
InCooldownAlsoStable(e, isStable) ==
  now - e.lastGestureTime < gestureCooldown

\* the cooldown test: the early return of updateGestureHistory
InCooldown(e, isStable) ==
  now - e.lastGestureTime < gestureCooldown /\ ~isStable

\* a delivery guard that forgets to compare with the last stable gesture
ShouldEmitEveryStable(e, gesture, isStable) == isStable

\* the test that guards the delivery
ShouldEmit(e, gesture, isStable) ==
  isStable /\ gesture # e.lastStableGesture

\* what is recorded of one hand of a frame: its score, whether it passed the
\* confidence test, and for a hand that passed the updateGestureHistory call
\* made for it
Skipped(e, score) ==
  [score |-> score, accepted |-> FALSE, gesture |-> "none",
   isStable |-> FALSE, emitted |-> FALSE,
   stableBefore |-> e.lastStableGesture, stableAfter |-> e.lastStableGesture,
   timeBefore |-> e.lastGestureTime, timeAfter |-> e.lastGestureTime,
   historyBefore |-> e.gestureHistory, historyAfter |-> e.gestureHistory]

\* The detector as a record e, so that the calls made for the hands of one
\* frame can be chained.
updateGestureHistory(e, gesture, score) ==
  LET history == PushHistory(e.gestureHistory, gesture)
      isStable == isGestureStable(history, gesture, stabilityThreshold)
      call == [Skipped(e, score) EXCEPT
                 !.accepted = TRUE, !.gesture = gesture,
                 !.isStable = isStable, !.historyAfter = history]
      quiet == [e EXCEPT !.gestureHistory = history,
                         !.pushed = Append(e.pushed, gesture),
                         !.handled = Append(e.handled, call)]
  IN IF InCooldown(e, isStable)
     THEN quiet
     ELSE IF ShouldEmit(e, gesture, isStable)
          THEN [quiet EXCEPT
                  !.lastStableGesture = gesture,
                  !.lastGestureTime = now,
                  !.handled = Append(e.handled,
                                [call EXCEPT !.emitted = TRUE,
                                             !.stableAfter = gesture,
                                             !.timeAfter = now]),
                  !.lastDelivered = gesture,
                  !.delivered = Append(e.delivered,
                                  [gesture |-> gesture,
                                   confidence |->
                                     calculateConfidence(history, gesture),
                                   text |-> gestureToText[gesture],
                                   isStable |-> TRUE])]
          ELSE quiet

\* a reset that clears the history only
resetToIdleKeepsStable(e) ==
  [e EXCEPT !.gestureHistory = <<>>, !.pushed = <<>>,
            !.lastDelivered = "none"]

resetToIdle(e) ==
  [e EXCEPT !.gestureHistory = <<>>, !.lastStableGesture = "idle",
            !.pushed = <<>>, !.lastDelivered = "none"]

\* a confidence test that also skips a score equal to the threshold
IsAcceptedStrictly(score) == score > confidenceThreshold

\* the confidence test of the loop: the hand is skipped when it fails
IsAccepted(score) == ~(score < confidenceThreshold)

\* the loop over the hands of a frame, from hand i on
RECURSIVE ProcessHands(_, _, _)
ProcessHands(e, hands, i) ==
  IF i > Len(hands)
  THEN e
  ELSE IF ~IsAccepted(hands[i].score)
       THEN ProcessHands(
              [e EXCEPT !.handled = Append(e.handled,
                                           Skipped(e, hands[i].score))],
              hands, i + 1)
       ELSE ProcessHands(
              updateGestureHistory(e, Classified[hands[i].shape],
                                   hands[i].score),
              hands, i + 1)

\* a handler that also resets when no hand of the frame passes the
\* confidence test
processHandResultsResetUnqualified(e, hands) ==
  IF \A i \in 1..Len(hands) : ~IsAccepted(hands[i].score)
  THEN resetToIdle(ProcessHands(e, hands, 1))
  ELSE ProcessHands(e, hands, 1)

processHandResults(e, hands) ==
  IF Len(hands) = 0 THEN resetToIdle(e) ELSE ProcessHands(e, hands, 1)

Hand == [score : Scores, shape : Shapes]

\* what the tracker can report for one frame: zero to MaxNumHands hands
Frames == UNION {[1..n -> Hand] : n \in 0..MaxNumHands}

\* a status that hands out the history array itself
SameArray(array) == [contents |-> array, live |-> TRUE]

\* [...array]: a new array with the same contents; live says whether the
\* returned array is the very array object the detector keeps pushing to
SpreadCopy(array) == [contents |-> array, live |-> FALSE]

getStatus ==
  [isDetecting |-> isDetecting,
   lastStableGesture |-> lastStableGesture,
   gestureHistory |-> SpreadCopy(gestureHistory),
   confidenceThreshold |-> confidenceThreshold,
   stabilityThreshold |-> stabilityThreshold,
   gestureCooldown |-> gestureCooldown]

\* What a frame does to an object returned earlier: push and shift act on the
\* array object in place, resetToIdle gives the detector a new array.
StatusAfterFrame(hands, history) ==
  IF status = <<>> \/ ~status[1].gestureHistory.live
  THEN status
  ELSE IF Len(hands) = 0
       THEN <<[status[1] EXCEPT !.gestureHistory.live = FALSE]>>
       ELSE <<[status[1] EXCEPT !.gestureHistory.contents = history]>>

\* the detector after its constructor has run
Constructed ==
  /\ gestureHistory = <<>>
  /\ lastStableGesture = "idle"
  /\ lastGestureTime = 0
  /\ stabilityThreshold = DefaultStabilityThreshold
  /\ confidenceThreshold = DefaultConfidenceThreshold
  /\ gestureCooldown = DefaultGestureCooldown
  /\ isDetecting = FALSE
  /\ camera = 0
  /\ cameras = <<>>
  /\ inFlight = {}
  /\ status = <<>>
  /\ argument = <<>>
  /\ now = Epoch
  /\ op = "other"
  /\ handled = <<>>
  /\ delivered = <<>>
  /\ pushed = <<>>
  /\ lastDelivered = "none"
  /\ mpLastGesture = "idle"
  /\ mpGestureHistory = <<>>
  /\ modelIsDetecting = FALSE
  /\ frameCount = 0
  /\ retryCount = 0
  /\ modelConfig = [confidenceThreshold |-> ModelConfidenceThreshold,
                    frameSkip |-> DefaultFrameSkip,
                    maxRetries |-> DefaultMaxRetries]
  /\ healthChecks = 0
  /\ animationFrames = 0
  /\ requests = 0
  /\ retryTimers = 0
  /\ modelStep = [sent |-> FALSE, predicted |-> <<>>]
  /\ attempts = 0
  /\ stopped = FALSE

Init == Constructed /\ classified = <<>>

\* the callback given to hands.onResults: one frame's result is handled
ProcessHandResults(hands) ==
  /\ Len(pushed) + Cardinality({i \in 1..Len(hands) :
                                    IsAccepted(hands[i].score)}) <= MaxPushed
  /\ LET before == [gestureHistory |-> gestureHistory,
                    lastStableGesture |-> lastStableGesture,
                    lastGestureTime |-> lastGestureTime,
                    pushed |-> pushed, lastDelivered |-> lastDelivered,
                    handled |-> <<>>, delivered |-> <<>>]
     IN \E after \in {processHandResults(before, hands)} :
        /\ gestureHistory' = after.gestureHistory
        /\ lastStableGesture' = after.lastStableGesture
        /\ lastGestureTime' = after.lastGestureTime
        /\ pushed' = after.pushed
        /\ lastDelivered' = after.lastDelivered
        /\ handled' = after.handled
        /\ delivered' = after.delivered
        /\ status' = StatusAfterFrame(hands, after.gestureHistory)
  /\ op' = "frame"
  /\ argument' = <<>>
  /\ UNCHANGED <<mediapipe, model>>
  /\ UNCHANGED <<config, session, classified, now>>

\* startDetection up to its await: nothing happens while isDetecting is set,
\* otherwise a Camera is created and camera.start() is awaited
StartDetection ==
  /\ IF isDetecting
     THEN UNCHANGED <<camera, cameras>>
     ELSE /\ Len(cameras) < MaxCameras
          /\ cameras' = Append(cameras, "starting")
          /\ camera' = Len(cameras) + 1
  /\ op' = "other"
  /\ argument' = <<>>
  /\ handled' = <<>>
  /\ delivered' = <<>>
  /\ UNCHANGED <<mediapipe, model>>
  /\ UNCHANGED <<engine, config, isDetecting, inFlight, status, classified,
                 now, pushed, lastDelivered>>

\* camera.start() of camera c resolves and startDetection goes on after its
\* await.  A camera that was told to stop while it was starting may or may
\* not deliver frames afterwards.
CameraStarted(c) ==
  /\ c \in DOMAIN cameras
  /\ cameras[c] \in {"starting", "stopping"}
  /\ \E to \in IF cameras[c] = "starting"
               THEN {"running"} ELSE {"running", "stopped"} :
       cameras' = [cameras EXCEPT ![c] = to]
  /\ isDetecting' = TRUE
  /\ op' = "other"
  /\ argument' = <<>>
  /\ handled' = <<>>
  /\ delivered' = <<>>
  /\ UNCHANGED <<mediapipe, model>>
  /\ UNCHANGED <<engine, config, camera, inFlight, status, classified,
                 now, pushed, lastDelivered>>

\* camera.start() of camera c rejects: startDetection logs the error
CameraStartFailed(c) ==
  /\ c \in DOMAIN cameras
  /\ cameras[c] \in {"starting", "stopping"}
  /\ cameras' = [cameras EXCEPT ![c] = "stopped"]
  /\ op' = "other"
  /\ argument' = <<>>
  /\ handled' = <<>>
  /\ delivered' = <<>>
  /\ UNCHANGED <<mediapipe, model>>
  /\ UNCHANGED <<engine, config, isDetecting, camera, inFlight, status,
                 classified, now, pushed, lastDelivered>>

StopDetection ==
  /\ cameras' =
       IF camera = 0
       THEN cameras
       ELSE [cameras EXCEPT ![camera] =
               CASE @ = "running" -> "stopped"
                 [] @ = "starting" -> "stopping"
                 [] OTHER -> @]
  /\ camera' = 0
  /\ isDetecting' = FALSE
  /\ op' = "stop"
  /\ argument' = <<>>
  /\ handled' = <<>>
  /\ delivered' = <<>>
  /\ lastDelivered' = "none"
  /\ UNCHANGED <<mediapipe, model>>
  /\ UNCHANGED <<engine, config, inFlight, status, classified, now, pushed>>

\* onFrame of a running camera: the video image is sent to the tracker
OnFrame(c) ==
  /\ c \in DOMAIN cameras
  /\ cameras[c] = "running"
  /\ c \notin inFlight
  /\ inFlight' = inFlight \cup {c}
  /\ op' = "other"
  /\ argument' = <<>>
  /\ handled' = <<>>
  /\ delivered' = <<>>
  /\ UNCHANGED <<mediapipe, model>>
  /\ UNCHANGED <<engine, config, session, status, classified, now, pushed,
                 lastDelivered>>

\* the tracker answers the send of camera c
OnResults(c, hands) ==
  /\ c \in inFlight
  /\ inFlight' = inFlight \ {c}
  /\ ProcessHandResults(hands)

\* onFrame and the answer of the tracker in one step: the send reads and
\* writes nothing of the detector
CameraFrame(c, hands) ==
  /\ c \in DOMAIN cameras
  /\ cameras[c] = "running"
  /\ inFlight = {}
  /\ inFlight' = inFlight
  /\ ProcessHandResults(hands)

\* an update that puts the fields left undefined back to their defaults
ConfigFieldOrDefault(c, field, previous) ==
  IF field \in DOMAIN c
  THEN c[field]
  ELSE CASE field = "confidenceThreshold" -> DefaultConfidenceThreshold
         [] field = "stabilityThreshold" -> DefaultStabilityThreshold
         [] field = "gestureCooldown" -> DefaultGestureCooldown

\* one field of the argument of updateConfig: the value supplied, the
\* previous value when the field is undefined
ConfigField(c, field, previous) ==
  IF field \in DOMAIN c THEN c[field] ELSE previous

\* the body of updateConfig: a field that is not undefined is in the domain
\* of c
updateConfig(c) ==
  /\ confidenceThreshold' =
       ConfigField(c, "confidenceThreshold", confidenceThreshold)
  /\ stabilityThreshold' =
       ConfigField(c, "stabilityThreshold", stabilityThreshold)
  /\ gestureCooldown' = ConfigField(c, "gestureCooldown", gestureCooldown)

UpdateConfig(c) ==
  /\ updateConfig(c)
  /\ op' = "other"
  /\ argument' = <<>>
  /\ handled' = <<>>
  /\ delivered' = <<>>
  /\ UNCHANGED <<mediapipe, model>>
  /\ UNCHANGED <<engine, session, inFlight, status, classified, now, pushed,
                 lastDelivered>>

\* updateConfig, with its argument kept on record
UpdateConfigRecorded(c) ==
  /\ updateConfig(c)
  /\ op' = "config"
  /\ argument' = <<c>>
  /\ handled' = <<>>
  /\ delivered' = <<>>
  /\ UNCHANGED <<mediapipe, model>>
  /\ UNCHANGED <<engine, session, inFlight, status, classified, now, pushed,
                 lastDelivered>>

GetStatus ==
  /\ status' = <<getStatus>>
  /\ op' = "status"
  /\ argument' = <<>>
  /\ handled' = <<>>
  /\ delivered' = <<>>
  /\ UNCHANGED <<mediapipe, model>>
  /\ UNCHANGED <<engine, config, session, inFlight, classified, now, pushed,
                 lastDelivered>>

\* the caller of getStatus removes the last entry of the array it was given
MutateStatus ==
  /\ status # <<>>
  /\ status[1].gestureHistory.contents # <<>>
  /\ LET shorter == SubSeq(status[1].gestureHistory.contents, 1,
                           Len(status[1].gestureHistory.contents) - 1)
     IN /\ status' = <<[status[1] EXCEPT !.gestureHistory.contents = shorter]>>
        /\ gestureHistory' = IF status[1].gestureHistory.live
                             THEN shorter ELSE gestureHistory
  /\ op' = "other"
  /\ argument' = <<>>
  /\ handled' = <<>>
  /\ delivered' = <<>>
  /\ UNCHANGED <<mediapipe, model>>
  /\ UNCHANGED <<lastStableGesture, lastGestureTime, config, session,
                 inFlight, classified, now, pushed, lastDelivered>>

\* classifyGesture is called on the hand that was drawn
Classify ==
  /\ classified # <<>>
  /\ classified[1].symbol = "unset"
  /\ classified' = <<[classified[1] EXCEPT
                        !.symbol = classifyGesture(classified[1].shape)]>>
  /\ op' = "other"
  /\ argument' = <<>>
  /\ handled' = <<>>
  /\ delivered' = <<>>
  /\ UNCHANGED <<mediapipe, model>>
  /\ UNCHANGED <<engine, config, session, inFlight, status, now, pushed,
                 lastDelivered>>

\* classifyGesture is called on hand h in the course of a session; the first
\* and the latest of these calls are kept, each with the symbol returned and
\* the lastStableGesture of the detector at the time
ClassifyHand(h) ==
  /\ LET call == [by |-> "RealTimeGestureDetector", shape |-> h,
                  symbol |-> classifyGesture(h),
                  stable |-> lastStableGesture]
     IN classified' = IF classified = <<>>
                      THEN <<call>> ELSE <<classified[1], call>>
  /\ op' = "classify"
  /\ argument' = <<>>
  /\ handled' = <<>>
  /\ delivered' = <<>>
  /\ UNCHANGED <<mediapipe, model>>
  /\ UNCHANGED <<engine, config, session, inFlight, status, now, pushed,
                 lastDelivered>>

\* time passes between two operations
Tick ==
  /\ now < MaxTime
  /\ now' = now + 1
  /\ op' = "other"
  /\ argument' = <<>>
  /\ handled' = <<>>
  /\ delivered' = <<>>
  /\ UNCHANGED <<mediapipe, model>>
  /\ UNCHANGED <<engine, config, session, inFlight, status, classified,
                 pushed, lastDelivered>>

(***************************************************************************)
(* MediaPipeGestureDetector, the detector of eight symbols.                 *)
(***************************************************************************)
\* a hand as its classifyGesture reads it: the five isFingerExtended
\* results, handHeight, and the handedness score
MediaPipeHand ==
  [thumbExtended : BOOLEAN, indexExtended : BOOLEAN,
   middleExtended : BOOLEAN, ringExtended : BOOLEAN,
   pinkyExtended : BOOLEAN, handHeight : HandHeights, confidence : Scores]

extendedCount(hand) ==
  Cardinality({f \in {"thumbExtended", "indexExtended", "middleExtended",
                      "ringExtended", "pinkyExtended"} : hand[f]})

\* a rule table whose repeat rule forgets the height of the hand
MediaPipeRulesRepeatAnyHeight(hand) ==
  LET t == hand.thumbExtended
      i == hand.indexExtended
      m == hand.middleExtended
      r == hand.ringExtended
      p == hand.pinkyExtended
  IN << Rule(extendedCount(hand) >= 4 /\ hand.handHeight > RaisedHeight,
             "hello"),
        Rule(t /\ i /\ ~m /\ ~r /\ ~p, "thanks"),
        Rule(~t /\ i /\ m /\ ~r /\ ~p, "help"),
        Rule(extendedCount(hand) = 0 /\ hand.handHeight < FistHeight,
             "wait"),
        Rule(t /\ ~i /\ ~m /\ ~r /\ ~p, "yes"),
        Rule(~t /\ i /\ ~m /\ ~r /\ ~p, "no"),
        Rule(extendedCount(hand) >= 4, "repeat") >>

\* the seven rules of MediaPipeGestureDetector.classifyGesture, in source
\* order
MediaPipeRules(hand) ==
  LET t == hand.thumbExtended
      i == hand.indexExtended
      m == hand.middleExtended
      r == hand.ringExtended
      p == hand.pinkyExtended
  IN << Rule(extendedCount(hand) >= 4 /\ hand.handHeight > RaisedHeight,
             "hello"),
        Rule(t /\ i /\ ~m /\ ~r /\ ~p, "thanks"),
        Rule(~t /\ i /\ m /\ ~r /\ ~p, "help"),
        Rule(extendedCount(hand) = 0 /\ hand.handHeight < FistHeight,
             "wait"),
        Rule(t /\ ~i /\ ~m /\ ~r /\ ~p, "yes"),
        Rule(~t /\ i /\ ~m /\ ~r /\ ~p, "no"),
        Rule(extendedCount(hand) >= 4 /\ hand.handHeight <= RaisedHeight,
             "repeat") >>

\* MediaPipeGestureDetector.classifyGesture
mpClassifyGesture(hands) ==
  IF Len(hands) = 0 THEN "idle" ELSE FirstMatch(MediaPipeRules(hands[1]))

\* a consistency test that asks for four of the last five detections
isGestureConsistentFour(history, gesture) ==
  IF Len(history) < RecentGestures THEN TRUE
  ELSE LET recentGestures == SliceLast(history, RecentGestures)
       IN Cardinality({k \in 1..Len(recentGestures) :
                         recentGestures[k] = gesture}) >= ConsistentCount + 1

\* MediaPipeGestureDetector.isGestureConsistent
isGestureConsistent(history, gesture) ==
  IF Len(history) < RecentGestures THEN TRUE
  ELSE LET recentGestures == SliceLast(history, RecentGestures)
       IN Cardinality({k \in 1..Len(recentGestures) :
                         recentGestures[k] = gesture}) >= ConsistentCount

\* push, then shift while more than five entries are kept
mpPush(history, gesture) ==
  LET longer == Append(history, gesture)
  IN IF Len(longer) > RecentGestures THEN Tail(longer) ELSE longer

\* a processHandResults that delivers every consistent gesture of a hand,
\* also the one delivered last
mpProcessHandResultsEveryConsistent(d, hands) ==
  LET unchanged == [lastGesture |-> d.lastGesture,
                    gestureHistory |-> d.gestureHistory,
                    delivered |-> <<>>]
  IN
  IF Len(hands) = 0
  THEN IF d.lastGesture # "idle"
       THEN LET history == mpPush(d.gestureHistory, "idle")
            IN IF isGestureConsistent(history, "idle")
               THEN [lastGesture |-> "idle", gestureHistory |-> history,
                     delivered |-> <<[gesture |-> "idle"]>>]
               ELSE [unchanged EXCEPT !.gestureHistory = history]
       ELSE unchanged
  ELSE LET highConfidenceHands ==
             SelectSeq(hands, LAMBDA hand : hand.confidence > HighConfidence)
       IN IF Len(highConfidenceHands) = 0 THEN unchanged
          ELSE LET gesture == mpClassifyGesture(highConfidenceHands)
                   history == mpPush(d.gestureHistory, gesture)
               IN IF isGestureConsistent(history, gesture)
                  THEN [lastGesture |-> gesture, gestureHistory |-> history,
                        delivered |-> <<[gesture |-> gesture]>>]
                  ELSE [unchanged EXCEPT !.gestureHistory = history]

\* MediaPipeGestureDetector.processHandResults on detector d
mpProcessHandResults(d, hands) ==
  LET unchanged == [lastGesture |-> d.lastGesture,
                    gestureHistory |-> d.gestureHistory,
                    delivered |-> <<>>]
  IN
  IF Len(hands) = 0
  THEN IF d.lastGesture # "idle"
       THEN LET history == mpPush(d.gestureHistory, "idle")
            IN IF isGestureConsistent(history, "idle")
               THEN [lastGesture |-> "idle", gestureHistory |-> history,
                     delivered |-> <<[gesture |-> "idle"]>>]
               ELSE [unchanged EXCEPT !.gestureHistory = history]
       ELSE unchanged
  ELSE LET highConfidenceHands ==
             SelectSeq(hands, LAMBDA hand : hand.confidence > HighConfidence)
       IN IF Len(highConfidenceHands) = 0 THEN unchanged
          ELSE LET gesture == mpClassifyGesture(highConfidenceHands)
                   history == mpPush(d.gestureHistory, gesture)
               IN IF /\ isGestureConsistent(history, gesture)
                     /\ gesture # d.lastGesture
                  THEN [lastGesture |-> gesture, gestureHistory |-> history,
                        delivered |-> <<[gesture |-> gesture]>>]
                  ELSE [unchanged EXCEPT !.gestureHistory = history]

\* processHandResults of the MediaPipeGestureDetector on one frame's result
MediaPipeFrame(hands) ==
  /\ \E after \in {mpProcessHandResults(
                      [lastGesture |-> mpLastGesture,
                       gestureHistory |-> mpGestureHistory], hands)} :
       /\ mpLastGesture' = after.lastGesture
       /\ mpGestureHistory' = after.gestureHistory
       /\ delivered' = after.delivered
  /\ op' = "mediapipe frame"
  /\ argument' = <<>>
  /\ UNCHANGED model
  /\ UNCHANGED <<engine, config, session, inFlight, status, classified, now,
                 pushed>>

\* the callback given to hands.onResults by MediaPipeGestureDetector
MediaPipeProcessHandResults(hands) ==
  /\ MediaPipeFrame(hands)
  /\ handled' = <<>>
  /\ UNCHANGED lastDelivered

\* the same callback, on record: how many hands the frame held, lastGesture
\* before it, and how many frames without a hand have been handled in a row,
\* this one included, while lastGesture was not idle; lastDelivered is the
\* gesture delivered last
MediaPipeProcessHandResultsRecorded(hands) ==
  /\ MediaPipeFrame(hands)
  /\ lastDelivered' = IF delivered' # <<>>
                       THEN delivered'[1].gesture ELSE lastDelivered
  /\ LET before == IF handled = <<>> THEN 0 ELSE handled[1].emptyRun
         emptyRun == IF Len(hands) = 0 /\ mpLastGesture # "idle"
                     THEN IF before < MaxEmptyRun THEN before + 1
                          ELSE MaxEmptyRun
                     ELSE 0
     IN handled' = <<[hands |-> Len(hands),
                      lastGestureBefore |-> mpLastGesture,
                      historyBefore |-> mpGestureHistory,
                      emptyRun |-> emptyRun]>>

\* MediaPipeGestureDetector.classifyGesture is called on its own; as in
\* ClassifyHand the first and the latest call are kept
MediaPipeClassify(hands) ==
  /\ LET call == [by |-> "MediaPipeGestureDetector", shape |-> hands,
                  symbol |-> mpClassifyGesture(hands),
                  stable |-> mpLastGesture]
     IN classified' = IF classified = <<>>
                      THEN <<call>> ELSE <<classified[1], call>>
  /\ op' = "classify"
  /\ argument' = <<>>
  /\ handled' = <<>>
  /\ delivered' = <<>>
  /\ UNCHANGED <<mediapipe, model>>
  /\ UNCHANGED <<engine, config, session, inFlight, status, now, pushed,
                 lastDelivered>>

ConfigFields ==
  {"stabilityThreshold", "confidenceThreshold", "gestureCooldown"}

ConfigChoices(field) ==
  CASE field = "stabilityThreshold" -> StabilityChoices
    [] field = "confidenceThreshold" -> ConfidenceChoices
    [] field = "gestureCooldown" -> CooldownChoices

\* the arguments of updateConfig that supply the fields in fields
ConfigsOf(fields) ==
  {c \in [fields -> StabilityChoices \cup ConfidenceChoices
                      \cup CooldownChoices] :
     \A f \in fields : c[f] \in ConfigChoices(f)}

\* the arguments the translator passes to updateConfig when the stability or
\* the confidence slider moves: one field at a time
Configs ==
  UNION {ConfigsOf({f}) : f \in {"stabilityThreshold", "confidenceThreshold"}}

\* every argument of updateConfig: one field when a slider moves, all three
\* when a session starts, and any other choice of fields
AllConfigs == UNION {ConfigsOf(fields) : fields \in SUBSET ConfigFields}

\* One session: startDetection is called once, its camera starts, and every
\* frame of the camera is answered by the tracker before the next operation.
Next ==
  \/ cameras = <<>> /\ StartDetection
  \/ \E c \in 1..MaxCameras : CameraStarted(c)
  \/ \E c \in 1..MaxCameras : \E hands \in Frames : CameraFrame(c, hands)
  \/ \E c \in Configs : UpdateConfig(c)
  \/ Tick

Spec == Init /\ [][Next]_vars

(***************************************************************************)
(* A session with a steady configuration and one hand: the sliders are set  *)
(* only while the history is empty, and every frame holds at most one hand, *)
(* whose score passes every confidence threshold.                           *)
(***************************************************************************)
ScenarioFrames ==
  {hands \in Frames :
     /\ Len(hands) <= 1
     /\ \A i \in 1..Len(hands) :
          \A c \in ConfidenceChoices : hands[i].score >= c}

NextScenario ==
  \/ cameras = <<>> /\ StartDetection
  \/ \E c \in 1..MaxCameras : CameraStarted(c)
  \/ \E c \in 1..MaxCameras :
       \E hands \in ScenarioFrames : CameraFrame(c, hands)
  \/ \E c \in AllConfigs : pushed = <<>> /\ UpdateConfig(c)
  \/ Tick

SpecScenario == Init /\ [][NextScenario]_vars

(***************************************************************************)
(* The same session, in which the cooldown slider is also moved at any      *)
(* time.                                                                    *)
(***************************************************************************)
NextCooldown ==
  \/ cameras = <<>> /\ StartDetection
  \/ \E c \in 1..MaxCameras : CameraStarted(c)
  \/ \E c \in 1..MaxCameras :
       \E hands \in ScenarioFrames : CameraFrame(c, hands)
  \/ \E c \in AllConfigs : pushed = <<>> /\ UpdateConfig(c)
  \/ \E c \in ConfigsOf({"gestureCooldown"}) : UpdateConfig(c)
  \/ Tick

SpecCooldown == Init /\ [][NextCooldown]_vars

(***************************************************************************)
(* Sessions that start, stop and start again under the default              *)
(* configuration, with the answers of the tracker arriving whenever they    *)
(* arrive.                                                                  *)
(***************************************************************************)
NextSession ==
  \/ StartDetection
  \/ \E c \in 1..MaxCameras : CameraStarted(c)
  \/ \E c \in 1..MaxCameras : CameraStartFailed(c)
  \/ StopDetection
  \/ \E c \in 1..MaxCameras : OnFrame(c)
  \/ \E c \in 1..MaxCameras : \E hands \in ScenarioFrames : OnResults(c, hands)

SpecSession == Init /\ [][NextSession]_vars

(***************************************************************************)
(* A session in which both hands are tracked and accepted in every frame    *)
(* that shows a hand; the sliders are set only while the history is empty.  *)
(***************************************************************************)
TwoHandFrames ==
  {hands \in Frames :
     /\ Len(hands) \in {0, MaxNumHands}
     /\ \A i \in 1..Len(hands) :
          \A c \in ConfidenceChoices : hands[i].score >= c}

\* the slider positions of Configs, and stability 2
TwoHandConfigs == Configs \cup {[stabilityThreshold |-> 2]}

NextTwoHands ==
  \/ cameras = <<>> /\ StartDetection
  \/ \E c \in 1..MaxCameras : CameraStarted(c)
  \/ \E c \in 1..MaxCameras :
       \E hands \in TwoHandFrames : CameraFrame(c, hands)
  \/ \E c \in TwoHandConfigs : pushed = <<>> /\ UpdateConfig(c)

SpecTwoHands == Init /\ [][NextTwoHands]_vars

(***************************************************************************)
(* A session in which the stability slider takes every position that the    *)
(* history can hold, at any time.                                           *)
(***************************************************************************)
NextStability ==
  \/ cameras = <<>> /\ StartDetection
  \/ \E c \in 1..MaxCameras : CameraStarted(c)
  \/ \E c \in 1..MaxCameras : \E hands \in Frames : CameraFrame(c, hands)
  \/ \E n \in 1..HistoryCapacity : UpdateConfig([stabilityThreshold |-> n])

SpecStability == Init /\ [][NextStability]_vars

(***************************************************************************)
(* A session whose status is queried: every frame holds at most one hand,   *)
(* getStatus is called, and its caller modifies the array it was given.     *)
(***************************************************************************)
NextStatus ==
  \/ cameras = <<>> /\ StartDetection
  \/ \E c \in 1..MaxCameras : CameraStarted(c)
  \/ \E c \in 1..MaxCameras :
       \E hands \in ScenarioFrames : CameraFrame(c, hands)
  \/ GetStatus
  \/ MutateStatus

SpecStatus == Init /\ [][NextStatus]_vars

(***************************************************************************)
(* A session whose configuration is changed at any time, by every argument  *)
(* updateConfig can be given, while one hand holds the shape of "a" or      *)
(* leaves the picture.                                                      *)
(***************************************************************************)
OneShapeFrames ==
  {hands \in ScenarioFrames :
     \A i \in 1..Len(hands) : hands[i].shape = FistThumb}

NextConfig ==
  \/ cameras = <<>> /\ StartDetection
  \/ \E c \in 1..MaxCameras : CameraStarted(c)
  \/ \E c \in 1..MaxCameras :
       \E hands \in OneShapeFrames : CameraFrame(c, hands)
  \/ \E c \in AllConfigs : UpdateConfigRecorded(c)

SpecConfig == Init /\ [][NextConfig]_vars

(***************************************************************************)
(* A session in the course of which classifyGesture is also called on its   *)
(* own, between frames, resets, deliveries and changes of the stability and *)
(* the confidence threshold.                                                *)
(***************************************************************************)
\* an open hand held up, and a raised thumb
OpenHand ==
  [thumbExtended |-> TRUE, indexExtended |-> TRUE, middleExtended |-> TRUE,
   ringExtended |-> TRUE, pinkyExtended |-> TRUE, handHeight |-> 25,
   confidence |-> 7]

ThumbUp ==
  [thumbExtended |-> TRUE, indexExtended |-> FALSE, middleExtended |-> FALSE,
   ringExtended |-> FALSE, pinkyExtended |-> FALSE, handHeight |-> 15,
   confidence |-> 7]

\* frames shown to the MediaPipeGestureDetector: no hand, one of the two
\* hands, the raised thumb with too low a score, or both hands
MediaPipeFrames ==
  {<<>>, <<OpenHand>>, <<ThumbUp>>, <<[ThumbUp EXCEPT !.confidence = 6]>>,
   <<ThumbUp, OpenHand>>}

\* index, middle and ring extended: none of the seven rules
ThreeFingers ==
  [thumbExtended |-> FALSE, indexExtended |-> TRUE, middleExtended |-> TRUE,
   ringExtended |-> TRUE, pinkyExtended |-> FALSE, handHeight |-> 20,
   confidence |-> 7]

(***************************************************************************)
(* The MediaPipeGestureDetector over any sequence of frames.                *)
(***************************************************************************)
NextMediaPipe ==
  \E hands \in MediaPipeFrames \cup {<<ThreeFingers>>} :
    MediaPipeProcessHandResultsRecorded(hands)

SpecMediaPipe == Init /\ [][NextMediaPipe]_vars

(***************************************************************************)
(* MediaPipeGestureDetector.classifyGesture on every hand: the five finger  *)
(* tests take every combination of values, at every height.                 *)
(***************************************************************************)
InitMediaPipeClassifier ==
  /\ Constructed
  /\ classified \in {<<[by |-> "MediaPipeGestureDetector", shape |-> <<h>>,
                         symbol |-> "unset", stable |-> "idle"]>> :
                        h \in MediaPipeHand}

\* classifyGesture is called on the hand that was drawn
MediaPipeClassifyDrawn ==
  /\ classified # <<>>
  /\ classified[1].symbol = "unset"
  /\ classified' = <<[classified[1] EXCEPT
                        !.symbol = mpClassifyGesture(classified[1].shape)]>>
  /\ op' = "classify"
  /\ argument' = <<>>
  /\ handled' = <<>>
  /\ delivered' = <<>>
  /\ UNCHANGED <<mediapipe, model>>
  /\ UNCHANGED <<engine, config, session, inFlight, status, now, pushed,
                 lastDelivered>>

NextMediaPipeClassifier == MediaPipeClassifyDrawn

SpecMediaPipeClassifier ==
  InitMediaPipeClassifier /\ [][NextMediaPipeClassifier]_vars

\* a page uses one of the two detectors
OnlyRealTime ==
  /\ mediapipe = <<"idle", <<>>>>
  /\ \A k \in 1..Len(classified) :
       classified[k].by = "RealTimeGestureDetector"

OnlyMediaPipe ==
  /\ cameras = <<>>
  /\ stabilityThreshold = DefaultStabilityThreshold
  /\ confidenceThreshold = DefaultConfidenceThreshold
  /\ \A k \in 1..Len(classified) :
       classified[k].by = "MediaPipeGestureDetector"

NextClassifying ==
  \/ OnlyRealTime /\ cameras = <<>> /\ StartDetection
  \/ OnlyRealTime /\ \E c \in 1..MaxCameras : CameraStarted(c)
  \/ OnlyRealTime /\ \E c \in 1..MaxCameras :
       \E hands \in ScenarioFrames : CameraFrame(c, hands)
  \/ OnlyRealTime /\ \E c \in Configs : UpdateConfig(c)
  \/ OnlyRealTime /\ \E h \in Shapes : ClassifyHand(h)
  \/ OnlyMediaPipe /\ \E hands \in MediaPipeFrames :
       MediaPipeProcessHandResults(hands)
  \/ OnlyMediaPipe /\ \E hands \in {<<OpenHand>>, <<ThumbUp, OpenHand>>} :
       MediaPipeClassify(hands)

SpecClassifying == Init /\ [][NextClassifying]_vars

(***************************************************************************)
(* classifyGesture on every hand: the five finger tests and the auxiliary   *)
(* tests take every combination of values.                                  *)
(***************************************************************************)
InitClassifier ==
  /\ Constructed
  /\ classified \in {<<[shape |-> h, symbol |-> "unset"]>> : h \in HandShape}

NextClassifier == Classify

SpecClassifier == InitClassifier /\ [][NextClassifier]_vars

(***************************************************************************)
(* The two tests on the tips of thumb and index.  Coordinates are in        *)
(* hundredths of the normalized image size; a distance is compared through  *)
(* its square, the square root being monotonic.                             *)
(***************************************************************************)
Square(n) == n * n

\* RealTimeGestureDetector.isThumbIndexTouching
isThumbIndexTouching(thumbTip, indexTip) ==
  LET distance2 == Square(thumbTip.x - indexTip.x)
                     + Square(thumbTip.y - indexTip.y)
                     + Square(thumbTip.z - indexTip.z)
  IN distance2 < Square(TouchingDistance)

\* RealTimeGestureDetector.isThumbIndexCircle
isThumbIndexCircle(thumbTip, indexTip) ==
  LET distance2 == Square(thumbTip.x - indexTip.x)
                     + Square(thumbTip.y - indexTip.y)
  IN distance2 < Square(CircleOuter) /\ distance2 > Square(CircleInner)

\* the landmarks of a tip: x, y and z
Landmark == [x : 0..MaxCoordinate, y : 0..MaxCoordinate, z : 0..MaxCoordinate]

\* the thumb tip is held where the index tip can lie on either side of it
ThumbTips == {[x |-> 0, y |-> 0, z |-> 0], [x |-> 2, y |-> 2, z |-> 2]}

InitTips ==
  /\ Constructed
  /\ classified \in {<<[thumbTip |-> t, indexTip |-> i, results |-> <<>>]>> :
                        t \in ThumbTips, i \in Landmark}

\* detectASLLetter evaluates the two tests on the tips that were drawn
TestTips ==
  /\ classified # <<>>
  /\ classified[1].results = <<>>
  /\ LET thumbTip == classified[1].thumbTip
         indexTip == classified[1].indexTip
     IN classified' =
          <<[classified[1] EXCEPT !.results =
               <<[isThumbIndexTouching |->
                    isThumbIndexTouching(thumbTip, indexTip),
                  isThumbIndexCircle |->
                    isThumbIndexCircle(thumbTip, indexTip)]>>]>>
  /\ op' = "other"
  /\ argument' = <<>>
  /\ handled' = <<>>
  /\ delivered' = <<>>
  /\ UNCHANGED <<mediapipe, model>>
  /\ UNCHANGED <<engine, config, session, inFlight, status, now, pushed,
                 lastDelivered>>

NextTips == TestTips

SpecTips == InitTips /\ [][NextTips]_vars

(***************************************************************************)
(* ModelDetector.  A detector is the record of its fields and of the        *)
(* callbacks it is waiting for; sent and predicted tell what one step did:  *)
(* whether it posted a prediction request, and the predictions it handed    *)
(* to onPrediction.                                                         *)
(***************************************************************************)
modelDetector ==
  [isDetecting |-> modelIsDetecting, frameCount |-> frameCount,
   retryCount |-> retryCount, config |-> modelConfig,
   healthChecks |-> healthChecks, animationFrames |-> animationFrames,
   requests |-> requests, retryTimers |-> retryTimers,
   sent |-> FALSE, predicted |-> <<>>]

\* captureAndProcessFrame up to the fetch of sendPredictionRequest
captureAndProcessFrame(m, readyState) ==
  IF readyState # HaveEnoughData
  THEN m
  ELSE [m EXCEPT !.requests = @ + 1, !.sent = TRUE]

\* sendPredictionRequest: its catch block
predictionFailed(m) ==
  LET counted == [m EXCEPT !.retryCount = @ + 1]
  IN  IF counted.retryCount < counted.config.maxRetries
      THEN [counted EXCEPT !.retryTimers = @ + 1]
      ELSE [counted EXCEPT !.retryCount = 0]

\* sendPredictionRequest from the moment its fetch is settled
predictionSettled(m, response) ==
  LET answered == [m EXCEPT !.requests = @ - 1]
  IN  IF ~response.ok
      THEN predictionFailed(answered)
      ELSE LET reset == [answered EXCEPT !.retryCount = 0]
           IN  IF response.confidence >= reset.config.confidenceThreshold
               THEN [reset EXCEPT !.predicted = <<response>>]
               ELSE reset

\* the closure processFrame of startDetection
processFrame(m, readyState) ==
  IF ~m.isDetecting
  THEN m
  ELSE LET counted == [m EXCEPT !.frameCount = @ + 1]
           captured ==
             IF counted.frameCount % counted.config.frameSkip = 0
             THEN captureAndProcessFrame(counted, readyState)
             ELSE counted
       IN  [captured EXCEPT !.animationFrames = @ + 1]

\* startDetection from the moment the health check is answered
healthChecked(m, available, readyState) ==
  LET answered == [m EXCEPT !.healthChecks = @ - 1]
  IN  IF ~available
      THEN answered
      ELSE processFrame([answered EXCEPT !.isDetecting = TRUE,
                                         !.frameCount = 0,
                                         !.retryCount = 0], readyState)

\* stopDetection
modelStopDetection(m) == [m EXCEPT !.isDetecting = FALSE, !.retryCount = 0]

\* updateConfig of the ModelDetector: the fields of newConfig replace the
\* fields of the same name
modelUpdateConfig(m, newConfig) ==
  [m EXCEPT !.config =
     [field \in DOMAIN m.config |->
        IF field \in DOMAIN newConfig THEN newConfig[field]
        ELSE m.config[field]]]

\* what the server answers, or the failure of the request
Responses ==
  {[ok |-> FALSE, confidence |-> 0]}
    \cup {[ok |-> TRUE, confidence |-> c] : c \in ModelConfidences}

ModelConfigs ==
  {[frameSkip |-> k] : k \in FrameSkipChoices}
    \cup {[maxRetries |-> n] : n \in MaxRetriesChoices}

\* the captures of the chain of retries a step leaves behind: a capture of
\* the frame loop starts a chain, a capture of a retry timer goes on with it
Chain(m, retry) ==
  IF ~m.sent THEN attempts
  ELSE IF ~retry THEN 1
  ELSE IF attempts < MaxAttempts THEN attempts + 1 ELSE MaxAttempts

\* the detector m is what one step leaves behind
ModelStep(m, name, chain, off) ==
  /\ m.frameCount <= MaxFrameCount
  /\ m.healthChecks <= MaxPending
  /\ m.animationFrames <= MaxPending
  /\ m.requests <= MaxPending
  /\ m.retryTimers <= MaxPending
  /\ modelIsDetecting' = m.isDetecting
  /\ frameCount' = m.frameCount
  /\ retryCount' = m.retryCount
  /\ modelConfig' = m.config
  /\ healthChecks' = m.healthChecks
  /\ animationFrames' = m.animationFrames
  /\ requests' = m.requests
  /\ retryTimers' = m.retryTimers
  /\ modelStep' = [sent |-> m.sent, predicted |-> m.predicted]
  /\ attempts' = chain
  /\ stopped' = off
  /\ op' = name
  /\ UNCHANGED <<engine, config, session, mediapipe, inFlight, status,
                 classified, argument, now, handled, delivered, pushed,
                 lastDelivered>>

\* startDetection is called: it returns at once while detecting, and
\* otherwise asks the server for its health
ModelStartDetection ==
  ModelStep(IF modelIsDetecting THEN modelDetector
            ELSE [modelDetector EXCEPT !.healthChecks = @ + 1],
            "startDetection", attempts, stopped)

\* the health check is answered and startDetection goes on
ModelHealthChecked(available, readyState) ==
  /\ healthChecks > 0
  /\ \E m \in {healthChecked(modelDetector, available, readyState)} :
       ModelStep(m, "health checked", Chain(m, FALSE),
                 stopped /\ ~m.isDetecting)

\* a callback given to requestAnimationFrame runs
ModelProcessFrame(readyState) ==
  /\ animationFrames > 0
  /\ \E m \in {processFrame([modelDetector EXCEPT !.animationFrames = @ - 1],
                            readyState)} :
       ModelStep(m, "processFrame", Chain(m, FALSE), stopped)

\* the fetch of a prediction request is settled
ModelPredictionSettled(response) ==
  /\ requests > 0
  /\ ModelStep(predictionSettled(modelDetector, response),
               IF response.ok THEN "prediction" ELSE "prediction failed",
               attempts, stopped)

\* a retry timer fires
ModelRetryTimer(readyState) ==
  /\ retryTimers > 0
  /\ \E m \in {captureAndProcessFrame(
                 [modelDetector EXCEPT !.retryTimers = @ - 1], readyState)} :
       ModelStep(m, "retry", Chain(m, TRUE), stopped)

ModelStopDetection ==
  ModelStep(modelStopDetection(modelDetector), "stopDetection", attempts,
            TRUE)

ModelUpdateConfig(newConfig) ==
  ModelStep(modelUpdateConfig(modelDetector, newConfig), "updateConfig",
            attempts, stopped)

(***************************************************************************)
(* The ModelDetector with a server that answers, fails, or is late.         *)
(***************************************************************************)
NextModelDetector ==
  \/ ModelStartDetection
  \/ \E available \in BOOLEAN : \E readyState \in ReadyStates :
       ModelHealthChecked(available, readyState)
  \/ \E readyState \in ReadyStates : ModelProcessFrame(readyState)
  \/ \E response \in Responses : ModelPredictionSettled(response)
  \/ \E readyState \in ReadyStates : ModelRetryTimer(readyState)
  \/ ModelStopDetection
  \/ \E newConfig \in ModelConfigs : ModelUpdateConfig(newConfig)

SpecModelDetector == Init /\ [][NextModelDetector]_vars

(***************************************************************************)
(* The ModelDetector with a server that fails every prediction request,     *)
(* while the frame loop sends a request only when no request is waiting     *)
(* for its answer and no retry is set, and the configuration is changed     *)
(* only then.                                                               *)
(***************************************************************************)
Quiet == requests = 0 /\ retryTimers = 0

NextRetry ==
  \/ ModelStartDetection
  \/ \E available \in BOOLEAN : \E readyState \in ReadyStates :
       /\ ModelHealthChecked(available, readyState)
       /\ modelStep'.sent => Quiet
  \/ \E readyState \in ReadyStates :
       /\ ModelProcessFrame(readyState)
       /\ modelStep'.sent => Quiet
  \/ ModelPredictionSettled([ok |-> FALSE, confidence |-> 0])
  \/ \E readyState \in ReadyStates : ModelRetryTimer(readyState)
  \/ ModelStopDetection
  \/ Quiet /\ \E newConfig \in ModelConfigs : ModelUpdateConfig(newConfig)

SpecRetry == Init /\ [][NextRetry]_vars

(***************************************************************************)
(* Reading the record of the frame handled last.                            *)
(***************************************************************************)
AcceptedCalls == {k \in 1..Len(handled) : handled[k].accepted}

EmittedCalls == {k \in 1..Len(handled) : handled[k].emitted}

\* the calls of the frame are chained, and the last one leaves the detector
\* in its present state
HandledEndsHere ==
  /\ \A k \in 1..(Len(handled) - 1) :
       /\ handled[k + 1].stableBefore = handled[k].stableAfter
       /\ handled[k + 1].timeBefore = handled[k].timeAfter
       /\ handled[k + 1].historyBefore = handled[k].historyAfter
  /\ handled # <<>> =>
       /\ handled[Len(handled)].stableAfter = lastStableGesture
       /\ handled[Len(handled)].timeAfter = lastGestureTime
       /\ handled[Len(handled)].historyAfter = gestureHistory

\* the j-th prediction delivered for the frame is the one of the j-th call
\* that emitted
RECURSIVE EmittedGestures(_)
EmittedGestures(k) ==
  IF k = 0 THEN <<>>
  ELSE IF handled[k].emitted
       THEN Append(EmittedGestures(k - 1), handled[k].gesture)
       ELSE EmittedGestures(k - 1)

DeliveredMatchesCalls ==
  /\ Len(delivered) = Cardinality(EmittedCalls)
  /\ EmittedGestures(Len(handled)) =
       [j \in 1..Len(delivered) |-> delivered[j].gesture]

(***************************************************************************)
(* C1: for every accepted classification handed to updateGestureHistory, a  *)
(* prediction is delivered if and only if isStable is true and the symbol   *)
(* differs from lastStableGesture; a delivery sets lastStableGesture to the *)
(* symbol and lastGestureTime to the current time, and without a delivery   *)
(* both stay as they were.                                                  *)
(***************************************************************************)
C1_EmitIffStableAndChanged ==
  /\ HandledEndsHere
  /\ DeliveredMatchesCalls
  /\ \A j \in 1..Len(delivered) : delivered[j].isStable
  /\ \A k \in AcceptedCalls :
       LET c == handled[k]
       IN /\ c.emitted <=> (c.isStable /\ c.gesture # c.stableBefore)
          /\ c.emitted => c.stableAfter = c.gesture /\ c.timeAfter = now
          /\ ~c.emitted =>
               c.stableAfter = c.stableBefore /\ c.timeAfter = c.timeBefore

\* one frame in which a stable changed symbol is delivered and a stable
\* unchanged symbol is not
C1_Witness ==
  /\ op = "frame"
  /\ \E k \in AcceptedCalls :
       handled[k].emitted /\ lastGestureTime = now
  /\ \E k \in AcceptedCalls :
       handled[k].isStable /\ ~handled[k].emitted
       /\ handled[k].gesture = handled[k].stableBefore

(***************************************************************************)
(* C2: two successive predictions never carry the same symbol unless a      *)
(* frame with zero hands was handled between them; a stable symbol that     *)
(* stays is not delivered again.                                            *)
(***************************************************************************)
C2_NoRepeatedSymbol ==
  [][delivered' # <<>> =>
       /\ delivered'[1].gesture # lastDelivered
       /\ \A j \in 1..(Len(delivered') - 1) :
            delivered'[j].gesture # delivered'[j + 1].gesture]_vars

\* a frame repeats the symbol delivered last: it is stable again and nothing
\* is delivered
C2_Witness ==
  /\ op = "frame"
  /\ delivered = <<>>
  /\ \E k \in AcceptedCalls :
       handled[k].isStable /\ handled[k].gesture = lastDelivered

\* the symbols pushed since the last reset, up to and including call k
PushedAt(k) ==
  SubSeq(pushed, 1,
         Len(pushed) - Cardinality({j \in AcceptedCalls : j > k}))

(***************************************************************************)
(* C3: from the initial engine state with stabilityThreshold N, frames that *)
(* each hold one accepted hand showing the same non-idle symbol s deliver   *)
(* nothing on frames 1..N-1, s once on frame N and nothing afterwards.      *)
(* Under SpecScenario the n-th frame since the reset is the n-th push.      *)
(***************************************************************************)
C3_OneEmissionOnFrameN ==
  (/\ op = "frame"
   /\ pushed # <<>>
   /\ pushed[1] # "idle"
   /\ \A i \in 1..Len(pushed) : pushed[i] = pushed[1])
  => IF Len(pushed) = stabilityThreshold
     THEN Len(delivered) = 1 /\ delivered[1].gesture = pushed[1]
     ELSE delivered = <<>>

(***************************************************************************)
(* C4: for every stabilityThreshold N >= 1, isStable is true if and only if *)
(* the last N classifications pushed since the last reset exist and all     *)
(* equal the newest one.                                                    *)
(***************************************************************************)
C4_StableIffLastNEqual ==
  \A k \in AcceptedCalls :
    LET log == PushedAt(k)
        N == stabilityThreshold
    IN handled[k].isStable <=>
         /\ Len(log) >= N
         /\ \A i \in (Len(log) - N + 1)..Len(log) : log[i] = handled[k].gesture

(***************************************************************************)
(* C5: while the history holds fewer than stabilityThreshold entries,       *)
(* isStable is false and nothing is delivered; a delivery is preceded by at *)
(* least stabilityThreshold pushes since the initial state or the reset.    *)
(***************************************************************************)
C5_ShortHistoryNeverStable ==
  /\ HandledEndsHere
  /\ DeliveredMatchesCalls
  /\ \A k \in AcceptedCalls :
       /\ Len(handled[k].historyAfter) < stabilityThreshold =>
            ~handled[k].isStable /\ ~handled[k].emitted
       /\ handled[k].emitted => Len(PushedAt(k)) >= stabilityThreshold

\* a changed symbol fills the whole history, which is still too short: it is
\* not stable and not delivered
C5_Witness ==
  /\ op = "frame"
  /\ delivered = <<>>
  /\ \E k \in AcceptedCalls :
       LET c == handled[k]
       IN /\ Len(c.historyAfter) < stabilityThreshold
          /\ \A i \in 1..Len(c.historyAfter) : c.historyAfter[i] = c.gesture
          /\ c.gesture # c.stableBefore
          /\ ~c.isStable

NoHandAccepted == handled # <<>> /\ AcceptedCalls = {}

(***************************************************************************)
(* C6: a frame with zero hands is a reset: afterwards the history is empty  *)
(* and lastStableGesture is idle, and nothing is delivered on that frame.   *)
(* The symbol delivered before the reset can then be delivered again.       *)
(***************************************************************************)
C6_ZeroHandsResets ==
  (op = "frame" /\ handled = <<>>) =>
    /\ gestureHistory = <<>>
    /\ lastStableGesture = "idle"
    /\ delivered = <<>>

\* "a" is delivered although a prediction was delivered earlier and nothing
\* but "a" has been pushed since the last reset: the earlier prediction, whose
\* first one was "a", was delivered before a reset
C6_Witness ==
  /\ op = "frame"
  /\ \A i \in 1..Len(pushed) : pushed[i] = "a"
  /\ Len(delivered) = 1
  /\ delivered[1].gesture = "a"
  /\ \E k \in EmittedCalls :
       handled[k].timeBefore > 0 /\ handled[k].stableBefore = "idle"

C8_AcceptedIffScoreReaches ==
  [][(op' = "frame" /\ handled' # <<>>) =>
       /\ handled'[1].historyBefore = gestureHistory
       /\ handled'[1].stableBefore = lastStableGesture
       /\ handled'[1].timeBefore = lastGestureTime
       /\ HandledEndsHere'
       /\ DeliveredMatchesCalls'
       /\ Len(pushed') = Len(pushed) + Cardinality(AcceptedCalls')
       /\ \A k \in 1..Len(handled') :
            LET c == handled'[k]
                longer == c.historyBefore \o <<c.gesture>>
            IN /\ c.accepted <=> c.score >= confidenceThreshold
               /\ c.accepted =>
                    c.historyAfter =
                      IF Len(longer) <= HistoryCapacity
                      THEN longer ELSE SubSeq(longer, 2, Len(longer))
               /\ ~c.accepted =>
                    /\ c.historyAfter = c.historyBefore
                    /\ c.stableAfter = c.stableBefore
                    /\ c.timeAfter = c.timeBefore
                    /\ ~c.emitted]_vars

\* a frame of two hands: the first is below the threshold and skipped, the
\* second has a score equal to the threshold and its symbol is pushed
C8_Witness ==
  /\ op = "frame"
  /\ Len(handled) = 2
  /\ handled[1].score < confidenceThreshold
  /\ ~handled[1].accepted
  /\ handled[2].score = confidenceThreshold
  /\ handled[2].accepted
  /\ gestureHistory = Append(handled[1].historyBefore, handled[2].gesture)

(***************************************************************************)
(* C9: the history holds at most 5 symbols, and they are the most recent    *)
(* min(5, n) of the n classifications pushed since the last reset, in push  *)
(* order.                                                                   *)
(***************************************************************************)
C9_HistoryIsRecentPushes ==
  LET n == Len(pushed)
      m == IF n < 5 THEN n ELSE 5
  IN /\ Len(gestureHistory) <= 5
     /\ gestureHistory = SubSeq(pushed, n - m + 1, n)

\* more than five pushes since the reset, and the evicted oldest one differs
\* from the one that is now the oldest
C9_Witness ==
  /\ Len(pushed) > HistoryCapacity
  /\ pushed[1] # pushed[2]
  /\ gestureHistory[1] = pushed[Len(pushed) - HistoryCapacity + 1]

\* the call that made the j-th delivery of the frame
EmittedCall(j) ==
  CHOOSE k \in EmittedCalls : Cardinality({i \in EmittedCalls : i <= k}) = j

(***************************************************************************)
(* C10: the confidence of every delivered prediction is k / min(5, length), *)
(* k counting the entries equal to the symbol among the last min(5, length) *)
(* entries of the history after the push; it lies in [0, 1] and is 1 when   *)
(* the history holds five entries that all equal the symbol.                *)
(***************************************************************************)
C10_ConfidenceIsShare ==
  /\ HandledEndsHere
  /\ DeliveredMatchesCalls
  /\ \A j \in 1..Len(delivered) :
       LET buffer == handled[EmittedCall(j)].historyAfter
           len == Len(buffer)
           m == IF len < 5 THEN len ELSE 5
           k == Cardinality({i \in (len - m + 1)..len :
                               buffer[i] = delivered[j].gesture})
           c == delivered[j].confidence
       IN /\ m > 0 /\ c.den > 0
          /\ c.num * m = k * c.den
          /\ 0 <= c.num /\ c.num <= c.den
          /\ (len = 5 /\ k = 5) => c.num = c.den

\* Scenario D: a is delivered with the history [a, a, b, a, a], b another
\* symbol, and its confidence is 4/5
C10_Witness ==
  /\ Len(delivered) = 1
  /\ Len(gestureHistory) = 5
  /\ \A i \in {1, 2, 4, 5} : gestureHistory[i] = delivered[1].gesture
  /\ gestureHistory[3] # delivered[1].gesture
  /\ delivered[1].confidence.num * 5 = 4 * delivered[1].confidence.den

(***************************************************************************)
(* C11: whatever the configuration and the hands of the frame, at most one  *)
(* prediction is delivered while one frame is handled.                      *)
(***************************************************************************)
C11_AtMostOneDelivery == Len(delivered) <= 1

C13_NoDeliveryInCooldown ==
  \A k \in EmittedCalls :
    handled[k].timeBefore > 0 =>
      now - handled[k].timeBefore >= gestureCooldown

(***************************************************************************)
(* C14: once stopDetection has been called, and until startDetection is     *)
(* called again, a result of the tracker that arrives is ignored: it leaves *)
(* the history, lastStableGesture and lastGestureTime as they were and      *)
(* delivers no prediction.  this.camera is null exactly from a call of      *)
(* stopDetection to the next call of startDetection that creates a camera.  *)
(***************************************************************************)
C14_ResultAfterStopIgnored ==
  [][(op' = "frame" /\ camera = 0 /\ cameras # <<>>) =>
       /\ gestureHistory' = gestureHistory
       /\ lastStableGesture' = lastStableGesture
       /\ lastGestureTime' = lastGestureTime
       /\ delivered' = <<>>]_vars

(***************************************************************************)
(* C15: when stopDetection returns, the engine state is back at its initial *)
(* values: the history is empty and lastStableGesture is idle.              *)
(***************************************************************************)
C15_StopResetsEngine ==
  op = "stop" => (gestureHistory = <<>> /\ lastStableGesture = "idle")

\* the symbols the hands shown to the camera are classified as
SymbolsShown == {Classified[h] : h \in Shapes}

\* the calls updateGestureHistory makes for the symbols of log, one after the
\* other, on a detector that has just been reset
RECURSIVE Replay(_, _)
Replay(log, n) ==
  IF n = 0
  THEN [gestureHistory |-> <<>>, lastStableGesture |-> "idle",
        lastGestureTime |-> 0, pushed |-> <<>>, lastDelivered |-> "none",
        handled |-> <<>>, delivered |-> <<>>]
  ELSE updateGestureHistory(Replay(log, n - 1), log[n],
                            DefaultConfidenceThreshold)

\* for every frame since the reset, whether the call made for the first of
\* its two hands delivered a prediction
FirstHandEmissions(log) ==
  LET calls == Replay(log, Len(log)).handled
  IN [f \in 1..(Len(log) \div 2) |-> calls[2 * f - 1].emitted]

(***************************************************************************)
(* C16: with two hands tracked in the same frames, whether and when the     *)
(* symbol shown by the first hand is delivered does not depend on what the  *)
(* second hand shows: had the second hand shown any other symbols in the    *)
(* frames since the reset, the first hand's symbols would have been         *)
(* delivered on the same frames.  Under SpecTwoHands the symbols pushed     *)
(* since the reset are those of the first and the second hand in turn.      *)
(***************************************************************************)
C16_HandsIndependent ==
  LET frames == Len(pushed) \div 2
  IN \A other \in [1..frames -> SymbolsShown] :
       LET log == [k \in 1..Len(pushed) |->
                     IF k % 2 = 1 THEN pushed[k] ELSE other[k \div 2]]
       IN FirstHandEmissions(log) = FirstHandEmissions(pushed)

\* the configuration in force, by field name
configOf ==
  [confidenceThreshold |-> confidenceThreshold,
   stabilityThreshold |-> stabilityThreshold,
   gestureCooldown |-> gestureCooldown]

(***************************************************************************)
(* C17: a frame is handled under the configuration that the last            *)
(* updateConfig before it left behind: a hand is accepted exactly when its  *)
(* score reaches that confidenceThreshold, and isStable is the test of that *)
(* stabilityThreshold against the history as it is, whatever was pushed     *)
(* under earlier thresholds; a prediction is delivered accordingly.         *)
(***************************************************************************)
C17_NextFrameUsesNewConfig ==
  [][op' = "frame" =>
       \A k \in 1..Len(handled') :
         LET c == handled'[k]
             N == stabilityThreshold
             len == Len(c.historyAfter)
         IN /\ c.accepted <=> c.score >= confidenceThreshold
            /\ c.accepted =>
                 (c.isStable <=>
                    /\ len >= N
                    /\ \A i \in 1..len :
                         (N = 0 \/ i > len - N) =>
                           c.historyAfter[i] = c.gesture)
            /\ c.emitted <=>
                 (c.accepted /\ c.isStable /\ c.gesture # c.stableBefore)]_vars

\* stabilityThreshold was lowered between two frames: a frame with one hand
\* delivers a symbol that already filled the end of the history for at least
\* stabilityThreshold entries before this frame without having been
\* delivered
C17_Witness ==
  /\ op = "frame"
  /\ Len(handled) = 1
  /\ handled[1].emitted
  /\ LET c == handled[1]
         len == Len(c.historyBefore)
     IN /\ len >= stabilityThreshold
        /\ \A i \in (len - stabilityThreshold + 1)..len :
             c.historyBefore[i] = c.gesture
        /\ c.stableBefore # c.gesture

(***************************************************************************)
(* C18: updateConfig stores the fields its argument supplies and leaves     *)
(* the other fields at their previous values; it changes neither the        *)
(* history, lastStableGesture, lastGestureTime nor isDetecting and delivers *)
(* no prediction.                                                           *)
(***************************************************************************)
C18_OnlySuppliedFieldsChange ==
  [][op' = "config" =>
       /\ Len(argument') = 1
       /\ \A f \in ConfigFields :
            configOf'[f] = IF f \in DOMAIN argument'[1]
                           THEN argument'[1][f] ELSE configOf[f]
       /\ gestureHistory' = gestureHistory
       /\ lastStableGesture' = lastStableGesture
       /\ lastGestureTime' = lastGestureTime
       /\ isDetecting' = isDetecting
       /\ delivered' = <<>>]_vars

\* updateConfig has stored the one field it was given, and a field it was not
\* given still holds a value that is not its default
C18_Witness ==
  /\ op = "config"
  /\ "stabilityThreshold" \in DOMAIN argument[1]
  /\ stabilityThreshold = argument[1].stabilityThreshold
  /\ "confidenceThreshold" \notin DOMAIN argument[1]
  /\ confidenceThreshold # DefaultConfidenceThreshold
  /\ gestureHistory # <<>>

(***************************************************************************)
(* C19: getStatus returns a snapshot.  The call changes nothing of the      *)
(* detector and returns the present values, the history as an array of its  *)
(* own; a frame handled afterwards leaves the returned object as it was;    *)
(* and when the caller modifies the returned array, the history,            *)
(* lastStableGesture and lastGestureTime of the detector stay as they were. *)
(***************************************************************************)
C19_StatusIsSnapshot ==
  [][/\ op' = "status" =>
          /\ gestureHistory' = gestureHistory
          /\ lastStableGesture' = lastStableGesture
          /\ lastGestureTime' = lastGestureTime
          /\ configOf' = configOf
          /\ isDetecting' = isDetecting
          /\ delivered' = <<>>
          /\ Len(status') = 1
          /\ status'[1].gestureHistory.contents = gestureHistory
          /\ status'[1].lastStableGesture = lastStableGesture
          /\ status'[1].isDetecting = isDetecting
          /\ status'[1].confidenceThreshold = confidenceThreshold
          /\ status'[1].stabilityThreshold = stabilityThreshold
          /\ status'[1].gestureCooldown = gestureCooldown
     /\ op' = "frame" => status' = status
     /\ (op' = "other" /\ status' # status) =>
          /\ gestureHistory' = gestureHistory
          /\ lastStableGesture' = lastStableGesture
          /\ lastGestureTime' = lastGestureTime]_vars

\* The status was returned after a delivery, when the history held at least
\* stabilityThreshold entries, and the caller has removed entries from the
\* returned array; a frame handled since then has delivered a prediction.
C19_Witness ==
  /\ op = "frame"
  /\ delivered # <<>>
  /\ status # <<>>
  /\ status[1].lastStableGesture # "idle"
  /\ Len(status[1].gestureHistory.contents) < status[1].stabilityThreshold
  /\ status[1].gestureHistory.contents # gestureHistory

\* the rules of both tables in the order classifyGesture tries them, and
\* those whose predicate holds for hand h
RulesInOrder(h) == LetterRules(h) \o CommonRules(h)

Matching(h) == {k \in 1..Len(RulesInOrder(h)) : RulesInOrder(h)[k].when}

(***************************************************************************)
(* C20: classifyGesture is total and the first match wins.  For every       *)
(* combination of the five finger tests and the auxiliary tests it returns  *)
(* one symbol of the vocabulary: the symbol of the earliest rule, letter    *)
(* and digit table first and macro-gesture table second, whose predicate    *)
(* holds, and idle exactly when no rule of either table matches.            *)
(***************************************************************************)
C20_FirstMatchWins ==
  (classified # <<>> /\ classified[1].symbol # "unset") =>
    LET h == classified[1].shape
        symbol == classified[1].symbol
    IN /\ symbol \in Gesture
       /\ symbol = "idle" <=> Matching(h) = {}
       /\ Matching(h) # {} =>
            \E k \in Matching(h) :
              /\ \A j \in Matching(h) : k <= j
              /\ symbol = RulesInOrder(h)[k].then

\* a hand for which rules of both tables hold, with different symbols, has
\* been given the symbol of the earliest of them
C20_Witness ==
  /\ classified # <<>>
  /\ classified[1].symbol # "unset"
  /\ LET h == classified[1].shape
     IN \E j \in Matching(h) :
          \E k \in Matching(h) :
            /\ j < k
            /\ j <= Len(LetterRules(h))
            /\ k > Len(LetterRules(h))
            /\ \A i \in Matching(h) : j <= i
            /\ RulesInOrder(h)[j].then # RulesInOrder(h)[k].then
            /\ classified[1].symbol = RulesInOrder(h)[j].then

Vocabulary == Gesture \ {"idle"}

\* the symbols classifyGesture returns, over every combination of the tests
Returned == {classifyGesture(h) : h \in HandShape}

\* read where classifyGesture has returned: however the call at hand came
\* out, no symbol of the vocabulary is missing from the results
C22_WholeVocabularyReturned ==
  \A k \in 1..Len(classified) :
    classified[k].symbol # "unset" =>
      \A symbol \in Vocabulary : symbol \in Returned

(***************************************************************************)
(* C23: a hand that makes the stop gesture, with index, middle, ring and    *)
(* pinky all extended, is classified as wait.                               *)
(***************************************************************************)
C23_StopGestureIsWait ==
  \A k \in 1..Len(classified) :
    (/\ classified[k].symbol # "unset"
     /\ isStopGesture(classified[k].shape)) =>
      classified[k].symbol = "wait"

(***************************************************************************)
(* C24: after a frame with zero hands the whole engine state is back at its *)
(* initial values: the history is empty, lastStableGesture is idle and      *)
(* lastGestureTime is 0.                                                    *)
(***************************************************************************)
C24_ZeroHandsResetsTime ==
  (op = "frame" /\ handled = <<>>) =>
    /\ gestureHistory = <<>>
    /\ lastStableGesture = "idle"
    /\ lastGestureTime = 0

HandsHoldDifferentShapes ==
  /\ Len(pushed) >= 2
  /\ pushed[1] # pushed[2]
  /\ \A k \in 3..Len(pushed) : pushed[k] = pushed[k - 2]

\* as stated, for any two hands whose symbols differ in every frame, in
\* whichever order the tracker reports the two hands
HandsDifferInEveryFrame ==
  /\ Len(pushed) >= 2
  /\ \A f \in 1..(Len(pushed) \div 2) : pushed[2 * f - 1] # pushed[2 * f]

C27_ConfidenceAtLeastShare ==
  stabilityThreshold \in 1..HistoryCapacity =>
    \A j \in 1..Len(delivered) :
      delivered[j].confidence.num * HistoryCapacity
        >= stabilityThreshold * delivered[j].confidence.den

\* a prediction whose confidence is exactly N / 5 and less than 1
C27_Witness ==
  /\ op = "frame"
  /\ stabilityThreshold \in 2..(HistoryCapacity - 1)
  /\ \E j \in 1..Len(delivered) :
       /\ delivered[j].confidence.den = HistoryCapacity
       /\ delivered[j].confidence.num = stabilityThreshold

(***************************************************************************)
(* C28: an idle prediction is delivered only directly after a prediction of *)
(* another symbol, with no reset between the two.  The first prediction of  *)
(* a session and the first prediction after a frame with zero hands are     *)
(* never idle.                                                              *)
(***************************************************************************)
C28_IdleOnlyAfterSymbol ==
  [][\A j \in 1..Len(delivered') :
       delivered'[j].gesture = "idle" =>
         IF j = 1
         THEN lastDelivered \notin {"none", "idle"}
         ELSE delivered'[j - 1].gesture # "idle"]_vars

(***************************************************************************)
(* C29: in every reachable state, however the calls of startDetection and   *)
(* stopDetection interleave, isDetecting implies that camera is not null;   *)
(* and once stopDetection has returned, isDetecting stays false as long as  *)
(* startDetection is not called again.  camera is null from the return of   *)
(* stopDetection up to the next call of startDetection that creates a       *)
(* Camera.                                                                  *)
(***************************************************************************)
C29_DetectingHasCamera ==
  [][/\ isDetecting' => camera' # 0
     /\ (camera = 0 /\ camera' = 0 /\ ~isDetecting) => ~isDetecting']_vars

(***************************************************************************)
(* C30: startDetection is idempotent while a session is starting or         *)
(* running.  Between two calls of stopDetection at most one Camera is       *)
(* created and started: no Camera is created while the detector holds a     *)
(* Camera that is starting or running.                                      *)
(***************************************************************************)
C30_StartIsIdempotent ==
  [][Len(cameras') > Len(cameras) =>
       (camera = 0 \/ cameras[camera] \notin {"starting", "running"})]_vars

(***************************************************************************)
(* C31: the circle test on the tips of thumb and index is decided on their  *)
(* distance in three dimensions: it is true exactly when that distance lies *)
(* strictly between 0.03 and 0.08.                                          *)
(***************************************************************************)
Distance3D2(a, b) ==
  Square(a.x - b.x) + Square(a.y - b.y) + Square(a.z - b.z)

C31_CircleOn3DDistance ==
  \A k \in 1..Len(classified) :
    \A j \in 1..Len(classified[k].results) :
      classified[k].results[j].isThumbIndexCircle <=>
        LET distance2 == Distance3D2(classified[k].thumbTip,
                                     classified[k].indexTip)
        IN /\ distance2 > Square(CircleInner)
           /\ distance2 < Square(CircleOuter)

(***************************************************************************)
(* C32: the MediaPipeGestureDetector delivers a gesture only when that      *)
(* gesture is found in at least 3 of the last 5 detections of its history.  *)
(***************************************************************************)
Occurrences(history, gesture) ==
  LET recentGestures == SliceLast(history, RecentGestures)
  IN Cardinality({k \in 1..Len(recentGestures) :
                    recentGestures[k] = gesture})

C32_DeliveredOnThreeOfFive ==
  (op = "mediapipe frame" /\ delivered # <<>>) =>
    Occurrences(mpGestureHistory, delivered[1].gesture) >= ConsistentCount

(***************************************************************************)
(* C33: in the MediaPipeGestureDetector, after any sequence of frames,      *)
(* lastGesture is the gesture delivered last, idle if none was delivered;   *)
(* two successive deliveries never carry the same gesture; and the history  *)
(* never holds more than 5 entries.                                         *)
(***************************************************************************)
C33_LastGestureIsLastDelivered ==
  [][/\ mpLastGesture' =
          IF lastDelivered' = "none" THEN "idle" ELSE lastDelivered'
     /\ Len(mpGestureHistory') <= RecentGestures
     /\ delivered' # <<>> =>
          /\ Len(delivered') = 1
          /\ delivered'[1].gesture # lastDelivered]_vars

\* a gesture is delivered in place of another one that is not idle, and the
\* history is full
C33_Witness ==
  /\ op = "mediapipe frame"
  /\ delivered # <<>>
  /\ delivered[1].gesture # "idle"
  /\ handled[1].lastGestureBefore \notin {"idle", delivered[1].gesture}
  /\ Len(mpGestureHistory) = RecentGestures
  /\ Len(handled[1].historyBefore) = RecentGestures

(***************************************************************************)
(* C34: in the MediaPipeGestureDetector, when lastGesture is not idle and   *)
(* the tracker reports frames without a hand in a row, idle is delivered    *)
(* and lastGesture becomes idle on the third such frame at the latest; a    *)
(* frame without a hand that finds lastGesture idle changes nothing and     *)
(* delivers nothing.                                                        *)
(***************************************************************************)
C34_IdleWithinThreeFrames ==
  [][(op' = "mediapipe frame" /\ handled'[1].hands = 0) =>
       IF mpLastGesture = "idle"
       THEN mediapipe' = mediapipe /\ delivered' = <<>>
       ELSE /\ mpLastGesture' = "idle" <=>
                 delivered' = <<[gesture |-> "idle"]>>
            /\ mpLastGesture' # "idle" => delivered' = <<>>
            /\ handled'[1].emptyRun >= ConsistentCount =>
                 mpLastGesture' = "idle"]_vars

\* idle is delivered on the third frame without a hand, not before
C34_Witness ==
  /\ op = "mediapipe frame"
  /\ handled # <<>>
  /\ handled[1].emptyRun = ConsistentCount
  /\ delivered = <<[gesture |-> "idle"]>>
  /\ mpLastGesture = "idle"

(***************************************************************************)
(* C35: in the classifier of eight symbols, for every combination of the    *)
(* five finger tests and every height of the hand at most one of the seven  *)
(* rules holds, so that the symbol returned does not depend on the order of *)
(* the rules; and each of the eight symbols is returned for some hand.      *)
(***************************************************************************)
MediaPipeGesture ==
  {"idle", "hello", "thanks", "help", "wait", "yes", "no", "repeat"}

\* the symbols MediaPipeGestureDetector.classifyGesture returns
MediaPipeReturned == {mpClassifyGesture(<<h>>) : h \in MediaPipeHand}

C35_RulesExclusive ==
  \A k \in 1..Len(classified) :
    classified[k].symbol # "unset" =>
      LET rules == MediaPipeRules(classified[k].shape[1])
          matching == {j \in 1..Len(rules) : rules[j].when}
      IN /\ Cardinality(matching) <= 1
         /\ \A j \in matching : classified[k].symbol = rules[j].then
         /\ matching = {} => classified[k].symbol = "idle"
         /\ classified[k].symbol = LastMatch(rules)
         /\ MediaPipeReturned = MediaPipeGesture

\* the last rule of the table has returned
C35_Witness ==
  /\ op = "classify"
  /\ classified # <<>>
  /\ classified[1].symbol = "repeat"
  /\ classified[1].shape[1].handHeight = RaisedHeight

(***************************************************************************)
(* C36: in the ModelDetector, when every prediction request fails and no    *)
(* other request is in flight, a failed capture is retried at most          *)
(* maxRetries - 1 times, maxRetries attempts in all; on the last failure    *)
(* retryCount is set back to 0 and no further retry is scheduled; and       *)
(* after every failure retryCount lies in 0..maxRetries - 1.                *)
(***************************************************************************)
C36_AtMostMaxRetriesAttempts ==
  [][/\ modelStep'.sent => attempts' <= modelConfig'.maxRetries
     /\ op' = "prediction failed" =>
          /\ retryCount' \in 0..(modelConfig.maxRetries - 1)
          /\ attempts >= modelConfig.maxRetries =>
               retryCount' = 0 /\ retryTimers' = retryTimers]_vars

(***************************************************************************)
(* C37: once stopDetection of the ModelDetector has been called, no         *)
(* prediction request is sent and no prediction is handed to onPrediction,  *)
(* also when a request was waiting for its answer or a retry timer was set  *)
(* at the moment of the call.                                               *)
(***************************************************************************)
C37_NothingAfterStop ==
  stopped => ~modelStep.sent /\ modelStep.predicted = <<>>

====
